---- MODULE Spec2Model ----
(***************************************************************************)
(* A model of the openai-imagegen service: the per-client sliding-window   *)
(* rate limiter (middleware/rate_limiter.py), the wiring of the            *)
(* application (main.py), the reference route (routers/reference.py) and   *)
(* the provider gateway (services/openai_service.py), with its image       *)
(* normalizer on its own.                                                  *)
(*                                                                         *)
(* Time is counted in ticks of 1/TicksPerSecond seconds, so that the       *)
(* truncation done by int() on a float number of seconds is visible.       *)
(* Tasks are the coroutines of the single event loop: a task runs from     *)
(* one await that suspends to the next without interleaving; `running`     *)
(* is the task that owns the loop (0: none).                               *)
(***************************************************************************)
EXTENDS Integers, Sequences, FiniteSets, TLC

\* ------------------------------------------------------------- bounds

NumTasks == 2

TicksPerSecond == 2

MaxAdvance == 2

\* settings.RATE_LIMIT_PER_MINUTE (60 by default), scaled down
limit == 2

\* the longest list of reference URLs a request carries
MaxUrls == 6

\* the most items a provider response holds
MaxItems == 2

\* the most requests the application serves in one run
MaxRequests == 2

\* the most pixels of an image handed to the normalizer
MaxPixels == 2

\* ---------------------------------------------------------- constants

\* self.window = 60  # 60 seconds
window == 60

WindowTicks == window * TicksPerSecond

Tasks == 1..NumTasks

Keys == {"10.0.0.1", "10.0.0.2"}

HealthPath == "/health"

\* How far the clock moves between two observations: one tick, one tick less
\* than the window, and the window.
ClockSteps == {1, WindowTicks - 1, WindowTicks}

\* The middleware main.py installs on the application.
AppMiddleware == {"CORSMiddleware"}

NoResponse == [status |-> 0]

\* len(request.image_urls) > 5
MaxReferences == 5

GeneratePath == "/api/v1/images/generate"

ReferencePath == "/api/v1/images/generate-with-reference"

Paths == {HealthPath, GeneratePath, ReferencePath}

\* settings.GENERATED_IMAGES_DIR
GENERATED_IMAGES_DIR == "generated-images"

\* Two remote references: U1 serves an image, U2 serves bytes that are no image.
U1 == "https://refs.example/1.png"

U2 == "https://refs.example/2.bin"

URLs == {U1, U2}

\* The reference lists of a request: none, one, two, and MaxReferences or more.
UrlLists ==
    {<<>>, <<U1>>, <<U2>>, <<U1, U2>>} \cup {[i \in 1..n |-> U1] : n \in MaxReferences..MaxUrls}

\* None, as the value of a URL and of a base64 text.
NoneUrl == "<None>"

NoneB64 == <<-1>>

\* The '=' of base64, after the 64 digits 0..63.
Pad == 64

\* The URL of an image the provider returns, and the bytes served there.
R1 == "https://provider.example/out/1.png"

ResultBody(u) == <<77>>

NoReq == [image_urls |-> <<>>, save_to_disk |-> FALSE, response_format |-> "png"]

NoExc == [type |-> "none", text |-> ""]

NoOutcome == [success |-> FALSE, error |-> "<unset>", message |-> "<unset>"]

NoFile == <<"", 0, 0, "">>

\* No image: the normalizer has no argument, or no result, yet.
NoImage == [mode |-> "", size |-> <<0, 0>>, data |-> <<>>]

VARIABLES
    now,            \* time.time(), in ticks
    advances,       \* how many times the clock has moved (bounded)
    requests,       \* RateLimiterMiddleware.requests: key -> deque of timestamps
    admitted,       \* history: every timestamp ever admitted, per key
    rejected,       \* history: per key, each rejection's time, retry_after and admissions so far
    running,        \* the task that owns the event loop, 0 when it is free
    pc,             \* each task's position
    path,           \* request.url.path
    client_ip,      \* request.client.host
    current_time,   \* dispatch's local current_time
    gate,           \* what the limiter decided for the task's request
    handled,        \* whether the route handler ran for the task's request
    response,       \* the response the task's request got
    client,         \* OpenAIImageService.client is set (an API key is configured)
    files,          \* the files of GENERATED_IMAGES_DIR: filename -> bytes
    served,         \* how many requests the application has taken (bounded)
    temp_names,     \* history: the temp file name of each reference call so far
    req,            \* the request object of the task's route
    bad_urls,       \* the URLs that cannot be fetched while the request is served
    processed_image_file,   \* generate_with_reference_urls' local
    temp_path,      \* generate_with_reference_urls' local
    provider_response,      \* response.data
    idx,            \* the loop's position in response.data
    images,         \* the loop's result list
    exc,            \* the exception in flight
    outcome,        \* the dict the service method returned
    net,            \* history: the network calls made for the task's request
    raw_data,       \* _process_image_for_openai's argument, decoded: the image it opens
    processed_image \* _process_image_for_openai's result

limiterVars == <<now, advances, requests, admitted, rejected, running, pc, path,
                 client_ip, current_time, gate, handled, response>>

diskVars == <<client, files, served, temp_names>>

callVars == <<req, bad_urls, processed_image_file, temp_path, provider_response,
              idx, images, exc, outcome, net>>

appVars == <<diskVars, callVars>>

normVars == <<raw_data, processed_image>>

vars == <<limiterVars, appVars, normVars>>

\* ------------------------------------------------------ pure helpers

\* int(x) of a number of seconds given in ticks: truncation towards zero.
IntSeconds(x) == IF x >= 0 THEN x \div TicksPerSecond ELSE -((-x) \div TicksPerSecond)

IsHealthCheckMutant(p) == p = "/healthz"

\* request.url.path == "/health"
IsHealthCheck(p) == p = HealthPath

PruneCondMutant(rec, ct) == rec # <<>> /\ Head(rec) < ct - 2 * WindowTicks

\* self.requests[client_ip] and self.requests[client_ip][0] < current_time - self.window
PruneCond(rec, ct) == rec # <<>> /\ Head(rec) < ct - WindowTicks

RateLimitedMutant(rec) == Len(rec) > limit

\* len(self.requests[client_ip]) >= self.limit
RateLimited(rec) == Len(rec) >= limit

RetryAfterMutant(rec, ct) == IntSeconds(WindowTicks - (ct - rec[Len(rec)]))

\* int(self.window - (current_time - self.requests[client_ip][0]))
RetryAfter(rec, ct) == IntSeconds(WindowTicks - (ct - Head(rec)))

AppendedMutant(rec, ct) == <<ct>> \o rec

\* self.requests[client_ip].append(current_time)
Appended(rec, ct) == Append(rec, ct)

\* The JSONResponse of a rejection.
RateLimitResponse(rec, ct) ==
    [status |-> 429,
     error |-> "Rate limit exceeded",
     message |-> <<"Maximum", limit, "requests per minute allowed">>,
     retry_after |-> RetryAfter(rec, ct)]

\* ----------------------------------------------------------- actions

BaseInit ==
    /\ now = 0
    /\ advances = 0
    /\ requests = [k \in Keys |-> <<>>]
    /\ admitted = [k \in Keys |-> <<>>]
    /\ rejected = [k \in Keys |-> {}]
    /\ running = 0
    /\ pc = [t \in Tasks |-> "idle"]
    /\ path = [t \in Tasks |-> HealthPath]
    /\ client_ip = [t \in Tasks |-> CHOOSE k \in Keys : TRUE]
    /\ current_time = [t \in Tasks |-> 0]
    /\ gate = [t \in Tasks |-> "none"]
    /\ handled = [t \in Tasks |-> FALSE]
    /\ response = [t \in Tasks |-> NoResponse]
    /\ files = [f \in {} |-> <<>>]
    /\ served = 0
    /\ temp_names = <<>>
    /\ req = [t \in Tasks |-> NoReq]
    /\ bad_urls = [t \in Tasks |-> {}]
    /\ processed_image_file = [t \in Tasks |-> <<>>]
    /\ temp_path = [t \in Tasks |-> NoFile]
    /\ provider_response = [t \in Tasks |-> <<>>]
    /\ idx = [t \in Tasks |-> 0]
    /\ images = [t \in Tasks |-> <<>>]
    /\ exc = [t \in Tasks |-> NoExc]
    /\ outcome = [t \in Tasks |-> NoOutcome]
    /\ net = [t \in Tasks |-> <<>>]

\* The limiter on its own: the service behind call_next is configured.
Init == BaseInit /\ client = TRUE /\ raw_data = NoImage /\ processed_image = NoImage

\* The wall clock moves on, whatever the tasks are doing.
Advance ==
    /\ advances < MaxAdvance
    /\ \E d \in ClockSteps : now' = now + d
    /\ advances' = advances + 1
    /\ UNCHANGED <<requests, admitted, rejected, running, pc, path, client_ip,
                   current_time, gate, handled, response>>
    /\ UNCHANGED <<appVars, normVars>>

\* RateLimiterMiddleware.dispatch is called with a request, lines 18-24: the
\* health check is passed on at once (the await of call_next frees the loop);
\* any other request reads the clock and goes on without suspending.
DispatchCall(t) ==
    /\ pc[t] = "idle"
    /\ running = 0
    /\ \E p \in Paths, k \in Keys :
        /\ path' = [path EXCEPT ![t] = p]
        /\ client_ip' = [client_ip EXCEPT ![t] = k]
        /\ IF IsHealthCheck(p)
           THEN /\ pc' = [pc EXCEPT ![t] = "handler"]
                /\ gate' = [gate EXCEPT ![t] = "exempt"]
                /\ UNCHANGED <<running, current_time>>
           ELSE /\ pc' = [pc EXCEPT ![t] = "prune"]
                /\ running' = t
                /\ current_time' = [current_time EXCEPT ![t] = now]
                /\ gate' = [gate EXCEPT ![t] = "checking"]
    /\ UNCHANGED <<now, advances, requests, admitted, rejected, handled, response>>
    /\ UNCHANGED <<appVars, normVars>>

\* dispatch, lines 27-28: one turn of the while loop.
Prune(t) ==
    /\ pc[t] = "prune"
    /\ running = t
    /\ PruneCond(requests[client_ip[t]], current_time[t])
    /\ requests' = [requests EXCEPT ![client_ip[t]] = Tail(@)]
    /\ UNCHANGED <<now, advances, admitted, rejected, running, pc, path, client_ip,
                   current_time, gate, handled, response>>
    /\ UNCHANGED <<appVars, normVars>>

\* dispatch, line 27: the loop condition is false.
PruneExit(t) ==
    /\ pc[t] = "prune"
    /\ running = t
    /\ ~PruneCond(requests[client_ip[t]], current_time[t])
    /\ pc' = [pc EXCEPT ![t] = "check"]
    /\ UNCHANGED <<now, advances, requests, admitted, rejected, running, path,
                   client_ip, current_time, gate, handled, response>>
    /\ UNCHANGED <<appVars, normVars>>

RejectMutant(t) ==
    /\ pc[t] = "check"
    /\ running = t
    /\ RateLimited(requests[client_ip[t]])
    /\ response' = [response EXCEPT ![t] =
                      RateLimitResponse(requests[client_ip[t]], current_time[t])]
    /\ gate' = [gate EXCEPT ![t] = "rejected"]
    /\ rejected' = [rejected EXCEPT ![client_ip[t]] =
                      @ \cup {<<current_time[t],
                                RetryAfter(requests[client_ip[t]], current_time[t]),
                                Len(admitted[client_ip[t]])>>}]
    /\ pc' = [pc EXCEPT ![t] = "done"]
    /\ requests' = [requests EXCEPT ![client_ip[t]] = Appended(@, current_time[t])]
    /\ UNCHANGED <<now, advances, admitted, running, path, client_ip, current_time, handled>>
    /\ UNCHANGED <<appVars, normVars>>

\* dispatch, lines 31-39: the rejection, returned without calling call_next.
Reject(t) ==
    /\ pc[t] = "check"
    /\ running = t
    /\ RateLimited(requests[client_ip[t]])
    /\ response' = [response EXCEPT ![t] =
                      RateLimitResponse(requests[client_ip[t]], current_time[t])]
    /\ gate' = [gate EXCEPT ![t] = "rejected"]
    /\ rejected' = [rejected EXCEPT ![client_ip[t]] =
                      @ \cup {<<current_time[t],
                                RetryAfter(requests[client_ip[t]], current_time[t]),
                                Len(admitted[client_ip[t]])>>}]
    /\ pc' = [pc EXCEPT ![t] = "done"]
    /\ UNCHANGED <<now, advances, requests, admitted, running, path,
                   client_ip, current_time, handled>>
    /\ UNCHANGED <<appVars, normVars>>

\* dispatch, lines 31, 42, 45: the request is recorded and passed on; the
\* await of call_next frees the loop.
Admit(t) ==
    /\ pc[t] = "check"
    /\ running = t
    /\ ~RateLimited(requests[client_ip[t]])
    /\ requests' = [requests EXCEPT ![client_ip[t]] = Appended(@, current_time[t])]
    /\ admitted' = [admitted EXCEPT ![client_ip[t]] = Append(@, current_time[t])]
    /\ gate' = [gate EXCEPT ![t] = "admitted"]
    /\ pc' = [pc EXCEPT ![t] = "handler"]
    /\ running' = 0
    /\ UNCHANGED <<now, advances, rejected, path, client_ip, current_time, handled,
                   response>>
    /\ UNCHANGED <<appVars, normVars>>

\* call_next: the route handler runs and answers (200, or 400 for a failure
\* outcome); it does not touch the limiter's records.
RouteHandler(t) ==
    /\ pc[t] = "handler"
    /\ running = 0
    /\ handled' = [handled EXCEPT ![t] = TRUE]
    /\ \E s \in {200, 400} : response' = [response EXCEPT ![t] = [status |-> s]]
    /\ pc' = [pc EXCEPT ![t] = "done"]
    /\ running' = t
    /\ UNCHANGED <<now, advances, requests, admitted, rejected, path, client_ip,
                   current_time, gate>>
    /\ UNCHANGED <<appVars, normVars>>

\* The response is sent; the task is free for the next request.
Return(t) ==
    /\ pc[t] = "done"
    /\ running = t
    /\ running' = 0
    /\ pc' = [pc EXCEPT ![t] = "idle"]
    /\ path' = [path EXCEPT ![t] = HealthPath]
    /\ client_ip' = [client_ip EXCEPT ![t] = CHOOSE k \in Keys : TRUE]
    /\ current_time' = [current_time EXCEPT ![t] = 0]
    /\ gate' = [gate EXCEPT ![t] = "none"]
    /\ handled' = [handled EXCEPT ![t] = FALSE]
    /\ response' = [response EXCEPT ![t] = NoResponse]
    /\ UNCHANGED <<now, advances, requests, admitted, rejected>>
    /\ UNCHANGED <<appVars, normVars>>

Next ==
    \/ Advance
    \/ \E t \in Tasks : DispatchCall(t)
    \/ \E t \in Tasks : Prune(t)
    \/ \E t \in Tasks : PruneExit(t)
    \/ \E t \in Tasks : Reject(t)
    \/ \E t \in Tasks : Admit(t)
    \/ \E t \in Tasks : RouteHandler(t)
    \/ \E t \in Tasks : Return(t)

Spec == Init /\ [][Next]_vars

\* ============================================== the application (main.py)

\* ------------------------------------------------------ pure helpers

\* `if x:` on an optional text.
TruthyUrl(u) == u # NoneUrl /\ u # ""

TruthyB64(b) == b # NoneB64 /\ b # <<>>

RECURSIVE B64Encode(_)
\* base64.b64encode: three bytes to four digits, the last group padded.
B64Encode(bytes) ==
    IF Len(bytes) = 0 THEN <<>>
    ELSE IF Len(bytes) = 1
    THEN <<bytes[1] \div 4, (bytes[1] % 4) * 16, Pad, Pad>>
    ELSE IF Len(bytes) = 2
    THEN <<bytes[1] \div 4, (bytes[1] % 4) * 16 + bytes[2] \div 16, (bytes[2] % 16) * 4, Pad>>
    ELSE <<bytes[1] \div 4, (bytes[1] % 4) * 16 + bytes[2] \div 16,
           (bytes[2] % 16) * 4 + bytes[3] \div 64, bytes[3] % 64>>
         \o B64Encode(SubSeq(bytes, 4, Len(bytes)))

\* What base64.b64decode raises on its argument ("none": nothing).
DecodeError(b) ==
    IF b = NoneB64 THEN "TypeError"
    ELSE IF Len(b) % 4 # 0 THEN "binascii.Error"
    ELSE "none"

RECURSIVE B64Decode(_)
\* base64.b64decode of a text whose length is a multiple of four.
B64Decode(b) ==
    IF Len(b) = 0 THEN <<>>
    ELSE (IF b[3] = Pad THEN <<b[1] * 4 + b[2] \div 16>>
          ELSE IF b[4] = Pad THEN <<b[1] * 4 + b[2] \div 16, (b[2] % 16) * 16 + b[3] \div 4>>
          ELSE <<b[1] * 4 + b[2] \div 16, (b[2] % 16) * 16 + b[3] \div 4, (b[3] % 4) * 64 + b[4]>>)
         \o B64Decode(SubSeq(b, 5, Len(b)))

\* The items a provider response is made of: a URL alone, inline data alone
\* (beside an empty URL), both, neither (no URL and an empty text), and inline
\* data with a digit missing.
Items ==
    {[url |-> R1, b64_json |-> NoneB64],
     [url |-> "", b64_json |-> B64Encode(<<77>>)],
     [url |-> R1, b64_json |-> B64Encode(<<255, 0>>)],
     [url |-> NoneUrl, b64_json |-> <<>>],
     [url |-> NoneUrl, b64_json |-> <<19, 16, Pad>>]}

ProviderResponses == UNION {[1..n -> Items] : n \in 0..MaxItems}

\* str(e) of each exception the environment raises.
ExcText(type) ==
    CASE type = "ConnectionError" -> "Failed to establish a new connection"
      [] type = "HTTPError" -> "404 Client Error: Not Found for url"
      [] type = "ValueError" -> "Invalid image data: cannot identify image file"
      [] type = "OSError" -> "[Errno 28] No space left on device"
      [] type = "APIError" -> "Error code: 400 - invalid request"
      [] type = "binascii.Error" -> "Incorrect padding"
      [] type = "TypeError" -> "argument should be a bytes-like object or ASCII string, not 'NoneType'"

Exc(type) == [type |-> type, text |-> ExcText(type)]

CatchesMutant(e) == e.type \in {"ConnectionError", "HTTPError", "APIError"}

\* except Exception as e: every exception raised in the model is an Exception.
Catches(e) ==
    e.type \in {"ConnectionError", "HTTPError", "ValueError", "OSError", "APIError",
                "binascii.Error", "TypeError"}

\* datetime.now().strftime('%Y%m%d_%H%M%S'): the clock to the second.
Timestamp == now \div TicksPerSecond

FilenameMutant(kind, ts, i, format) == <<kind, ts, 0, format>>

\* f"{filename_prefix}.{format}" with prefix f"{kind}_{timestamp}_{idx}".
Filename(kind, ts, i, format) == <<kind, ts, i, format>>

\* f"temp_ref_{timestamp}.png"
TempFilename(ts) == <<"temp_ref", ts, -1, "png">>

\* The file f holding data, whatever it held.
Written(fs, f, data) == (f :> data) @@ fs

\* os.remove(f)
Removed(fs, f) == [g \in DOMAIN fs \ {f} |-> fs[g]]

\* _process_image_for_openai: U2's bytes are no image; an image becomes an RGB PNG.
IsImage(u) == u = U1

\* The PNG it writes, as its first bytes.
Processed(u) == <<137, 80, 78, 71>>

\* _create_enhanced_prompt: which of its two texts, and the count it names.
EnhancedPrompt(ref_count) ==
    IF ref_count = 1 THEN <<"single">> ELSE <<"multi", ref_count>>

TooManyReferencesMutant(urls) == Len(urls) > MaxReferences + 1

\* len(request.image_urls) > 5
TooManyReferences(urls) == Len(urls) > MaxReferences

ImageInfoMutant(i, b64, done) == [index |-> Len(done), b64_json |-> b64]

\* image_info = {"index": idx, "b64_json": b64_data}
ImageInfo(i, b64, done) == [index |-> i, b64_json |-> b64]

\* image_info with "filename" and "file_path" set.
WithFile(info, f) ==
    [index |-> info.index, b64_json |-> info.b64_json, filename |-> f,
     file_path |-> <<GENERATED_IMAGES_DIR, f>>]

\* The failure dict of the except clause and of the early returns.
Failure(error, message) == [success |-> FALSE, error |-> error, message |-> message]

\* ----------------------------------------------------------- actions

\* The application on its own: nothing is recorded by the limiter.
AppInit ==
    BaseInit /\ client \in BOOLEAN /\ raw_data = NoImage /\ processed_image = NoImage

limiterFrame == <<requests, admitted, rejected, client_ip, current_time>>

\* The clock moves by one tick.
Tick ==
    /\ advances < MaxAdvance
    /\ now' = now + 1
    /\ advances' = advances + 1
    /\ UNCHANGED <<running, pc, path, gate, handled, response>>
    /\ UNCHANGED <<limiterFrame, normVars, appVars>>

\* A request arrives at the application of main.py: it passes the installed
\* middleware and is routed; its handler runs on the event loop.
AppRequest(t) ==
    /\ pc[t] = "idle"
    /\ running = 0
    /\ served < MaxRequests
    /\ served' = served + 1
    /\ running' = t
    /\ \E p \in Paths :
        /\ path' = [path EXCEPT ![t] = p]
        /\ \E urls \in (IF p = ReferencePath THEN UrlLists ELSE {<<>>}),
              bad \in (IF p = ReferencePath THEN {{}, {U1}, {U2}} ELSE {{}}),
              sf \in (IF p = HealthPath THEN {<<FALSE, "png">>}
                      ELSE {<<FALSE, "png">>, <<TRUE, "png">>, <<TRUE, "jpeg">>}) :
            /\ req' = [req EXCEPT ![t] = [image_urls |-> urls, save_to_disk |-> sf[1],
                                          response_format |-> sf[2]]]
            /\ bad_urls' = [bad_urls EXCEPT ![t] = bad]
    /\ pc' = [pc EXCEPT ![t] =
                IF "RateLimiterMiddleware" \in AppMiddleware THEN "dispatch" ELSE "route"]
    /\ UNCHANGED <<now, advances, gate, handled, response, limiterFrame, normVars>>
    /\ UNCHANGED <<client, files, temp_names, processed_image_file, temp_path, provider_response,
                   idx, images, exc, outcome, net>>

\* health_check: a service of its own asks the provider for its models.
HealthCheck(t) ==
    /\ pc[t] = "route" /\ running = t
    /\ path[t] = HealthPath
    /\ handled' = [handled EXCEPT ![t] = TRUE]
    /\ IF client
       THEN /\ net' = [net EXCEPT ![t] = Append(@, <<"models.list">>)]
            /\ \E ok \in BOOLEAN :
                response' = [response EXCEPT ![t] =
                    [status |-> 200, openai_status |-> IF ok THEN "healthy" ELSE "unhealthy"]]
       ELSE /\ response' = [response EXCEPT ![t] =
                    [status |-> 200, openai_status |-> "unhealthy"]]
            /\ UNCHANGED net
    /\ pc' = [pc EXCEPT ![t] = "done"]
    /\ UNCHANGED <<now, advances, running, path, gate, limiterFrame, normVars, diskVars>>
    /\ UNCHANGED <<req, bad_urls, processed_image_file, temp_path, provider_response,
                   idx, images, exc, outcome>>

\* generate_with_reference, lines 29-32: the count check, then the service call.
RouteReference(t) ==
    /\ pc[t] = "route" /\ running = t
    /\ path[t] = ReferencePath
    /\ handled' = [handled EXCEPT ![t] = TRUE]
    /\ IF TooManyReferences(req[t].image_urls)
       THEN /\ response' = [response EXCEPT ![t] =
                    [status |-> 400, detail |-> "Maximum 5 reference images allowed"]]
            /\ pc' = [pc EXCEPT ![t] = "done"]
       ELSE /\ pc' = [pc EXCEPT ![t] = "ref_start"]
            /\ UNCHANGED response
    /\ UNCHANGED <<now, advances, running, path, gate, limiterFrame, normVars, appVars>>

\* generate_image (the route), line 19: the service call.
RouteGenerate(t) ==
    /\ pc[t] = "route" /\ running = t
    /\ path[t] = GeneratePath
    /\ handled' = [handled EXCEPT ![t] = TRUE]
    /\ pc' = [pc EXCEPT ![t] = "gen_start"]
    /\ UNCHANGED <<now, advances, running, path, gate, response, limiterFrame, normVars, appVars>>

\* raise e
Raise(t, type) ==
    /\ exc' = [exc EXCEPT ![t] = Exc(type)]
    /\ pc' = [pc EXCEPT ![t] = "except"]

ReturnOutcomeMutant(t, d) ==
    /\ outcome' = [outcome EXCEPT ![t] = d @@ [images |-> images[t]]]
    /\ pc' = [pc EXCEPT ![t] = "route_return"]

\* The service method returns d to its route.
ReturnOutcome(t, d) ==
    /\ outcome' = [outcome EXCEPT ![t] = d]
    /\ pc' = [pc EXCEPT ![t] = "route_return"]

\* generate_with_reference_urls, lines 80-92: the early returns.
RefStart(t) ==
    /\ pc[t] = "ref_start" /\ running = t
    /\ IF ~client
       THEN ReturnOutcome(t, Failure("OpenAI API key not configured",
                                     "Please set OPENAI_API_KEY environment variable"))
       ELSE IF req[t].image_urls = <<>>
       THEN ReturnOutcome(t, Failure("No reference images provided",
                                     "Please provide at least one reference image URL"))
       ELSE /\ pc' = [pc EXCEPT ![t] = "fetch_ref"]
            /\ UNCHANGED outcome
    /\ UNCHANGED <<now, advances, running, path, gate, handled, response, limiterFrame, normVars,
                   diskVars>>
    /\ UNCHANGED <<req, bad_urls, processed_image_file, temp_path, provider_response,
                   idx, images, exc, net>>

\* generate_with_reference_urls, line 95: _download_image_from_url of the
\* first reference, and of no other: the GET, raise_for_status, the decoding.
FetchReference(t) ==
    /\ pc[t] = "fetch_ref" /\ running = t
    /\ LET u == req[t].image_urls[1] IN
        /\ net' = [net EXCEPT ![t] = Append(@, <<"GET", u>>)]
        /\ IF u \in bad_urls[t]
           THEN Raise(t, "ConnectionError") /\ UNCHANGED processed_image_file
           ELSE IF ~IsImage(u)
           THEN Raise(t, "ValueError") /\ UNCHANGED processed_image_file
           ELSE /\ processed_image_file' = [processed_image_file EXCEPT ![t] = Processed(u)]
                /\ pc' = [pc EXCEPT ![t] = "write_temp"]
                /\ UNCHANGED exc
    /\ UNCHANGED <<now, advances, running, path, gate, handled, response, limiterFrame, normVars,
                   diskVars>>
    /\ UNCHANGED <<req, bad_urls, temp_path, provider_response, idx, images, outcome>>

\* generate_with_reference_urls, lines 101-107: the temp file is named after
\* the second and written; open or write may fail (a failed write leaves the
\* file it opened).
WriteTemp(t) ==
    /\ pc[t] = "write_temp" /\ running = t
    /\ LET f == TempFilename(Timestamp) IN
        /\ temp_path' = [temp_path EXCEPT ![t] = f]
        /\ temp_names' = Append(temp_names, f)
        /\ \E w \in {"ok", "open fails", "write fails"} :
            CASE w = "ok" ->
                    /\ files' = Written(files, f, processed_image_file[t])
                    /\ pc' = [pc EXCEPT ![t] = "edit"]
                    /\ UNCHANGED exc
              [] w = "open fails" ->
                    /\ Raise(t, "OSError")
                    /\ UNCHANGED files
              [] w = "write fails" ->
                    /\ Raise(t, "OSError")
                    /\ files' = Written(files, f, <<>>)
    /\ UNCHANGED <<now, advances, running, path, gate, handled, response, limiterFrame, normVars,
                   client, served>>
    /\ UNCHANGED <<req, bad_urls, processed_image_file, provider_response, idx, images,
                   outcome, net>>

\* generate_with_reference_urls, lines 109-124: the edit call on the temp
\* file, and the finally clause that removes the file either way.
ProviderEdit(t) ==
    /\ pc[t] = "edit" /\ running = t
    /\ net' = [net EXCEPT ![t] = Append(@, <<"images.edit", EnhancedPrompt(Len(req[t].image_urls))>>)]
    /\ files' = Removed(files, temp_path[t])
    /\ \/ /\ \E r \in ProviderResponses :
                provider_response' = [provider_response EXCEPT ![t] = r]
          /\ idx' = [idx EXCEPT ![t] = 0]
          /\ images' = [images EXCEPT ![t] = <<>>]
          /\ pc' = [pc EXCEPT ![t] = "ref_loop"]
          /\ UNCHANGED exc
       \/ /\ Raise(t, "APIError")
          /\ UNCHANGED <<provider_response, idx, images>>
    /\ UNCHANGED <<now, advances, running, path, gate, handled, response, limiterFrame, normVars,
                   client, served, temp_names>>
    /\ UNCHANGED <<req, bad_urls, processed_image_file, temp_path, outcome>>

\* _save_image_to_disk and what follows it in the loop body (lines 144-153, and
\* 46-55 of generate_image): the text is decoded, the file written under a
\* name made of the second and the index, and the image appended.
SaveAndCollect(t, kind, info) ==
    IF ~req[t].save_to_disk
    THEN /\ images' = [images EXCEPT ![t] = Append(@, info)]
         /\ idx' = [idx EXCEPT ![t] = @ + 1]
         /\ UNCHANGED <<files, exc, pc>>
    ELSE IF DecodeError(info.b64_json) # "none"
    THEN /\ Raise(t, DecodeError(info.b64_json))
         /\ UNCHANGED <<files, images, idx>>
    ELSE LET f == Filename(kind, Timestamp, idx[t], req[t].response_format) IN
         \E w \in {"ok", "open fails", "write fails"} :
            CASE w = "ok" ->
                    /\ files' = Written(files, f, B64Decode(info.b64_json))
                    /\ images' = [images EXCEPT ![t] = Append(@, WithFile(info, f))]
                    /\ idx' = [idx EXCEPT ![t] = @ + 1]
                    /\ UNCHANGED <<exc, pc>>
              [] w = "open fails" ->
                    /\ Raise(t, "OSError")
                    /\ UNCHANGED <<files, images, idx>>
              [] w = "write fails" ->
                    /\ Raise(t, "OSError")
                    /\ files' = Written(files, f, <<>>)
                    /\ UNCHANGED <<images, idx>>

\* generate_with_reference_urls, lines 127-153: one turn of the loop over
\* response.data.
RefLoopItem(t) ==
    /\ pc[t] = "ref_loop" /\ running = t
    /\ idx[t] < Len(provider_response[t])
    /\ LET item == provider_response[t][idx[t] + 1] IN
        IF TruthyUrl(item.url)
        THEN /\ net' = [net EXCEPT ![t] = Append(@, <<"GET", item.url>>)]
             /\ \/ /\ Raise(t, "HTTPError")
                   /\ UNCHANGED <<files, images, idx>>
                \/ SaveAndCollect(t, "reference",
                        ImageInfo(idx[t], B64Encode(ResultBody(item.url)), images[t]))
        ELSE IF TruthyB64(item.b64_json)
        THEN /\ SaveAndCollect(t, "reference", ImageInfo(idx[t], item.b64_json, images[t]))
             /\ UNCHANGED net
        ELSE /\ idx' = [idx EXCEPT ![t] = @ + 1]
             /\ UNCHANGED <<files, images, exc, pc, net>>
    /\ UNCHANGED <<now, advances, running, path, gate, handled, response, limiterFrame, normVars,
                   client, served, temp_names>>
    /\ UNCHANGED <<req, bad_urls, processed_image_file, temp_path, provider_response,
                   outcome>>

\* generate_with_reference_urls, lines 155-169: the success dict.
RefLoopExit(t) ==
    /\ pc[t] = "ref_loop" /\ running = t
    /\ idx[t] = Len(provider_response[t])
    /\ ReturnOutcome(t,
         [success |-> TRUE,
          message |-> <<"Successfully generated", Len(images[t]), "image(s) using",
                        Len(req[t].image_urls), "reference(s)">>,
          images |-> images[t],
          request_params |->
              [enhanced_prompt |-> EnhancedPrompt(Len(req[t].image_urls)),
               reference_count |-> Len(req[t].image_urls),
               reference_urls |-> req[t].image_urls]])
    /\ UNCHANGED <<now, advances, running, path, gate, handled, response, limiterFrame, normVars,
                   diskVars>>
    /\ UNCHANGED <<req, bad_urls, processed_image_file, temp_path, provider_response,
                   idx, images, exc, net>>

\* generate_image, lines 22-38: the early return, then the generate call.
GenStart(t) ==
    /\ pc[t] = "gen_start" /\ running = t
    /\ IF ~client
       THEN /\ ReturnOutcome(t, Failure("OpenAI API key not configured",
                                        "Please set OPENAI_API_KEY environment variable"))
            /\ UNCHANGED <<provider_response, idx, images, exc, net>>
       ELSE /\ net' = [net EXCEPT ![t] = Append(@, <<"images.generate">>)]
            /\ \/ /\ \E r \in ProviderResponses :
                        provider_response' = [provider_response EXCEPT ![t] = r]
                  /\ idx' = [idx EXCEPT ![t] = 0]
                  /\ images' = [images EXCEPT ![t] = <<>>]
                  /\ pc' = [pc EXCEPT ![t] = "gen_loop"]
                  /\ UNCHANGED <<exc, outcome>>
               \/ /\ Raise(t, "APIError")
                  /\ UNCHANGED <<provider_response, idx, images, outcome>>
    /\ UNCHANGED <<now, advances, running, path, gate, handled, response, limiterFrame, normVars,
                   diskVars>>
    /\ UNCHANGED <<req, bad_urls, processed_image_file, temp_path>>

\* generate_image, lines 39-55: one turn of the loop over response.data.
GenLoopItem(t) ==
    /\ pc[t] = "gen_loop" /\ running = t
    /\ idx[t] < Len(provider_response[t])
    /\ SaveAndCollect(t, "generated",
            ImageInfo(idx[t], provider_response[t][idx[t] + 1].b64_json, images[t]))
    /\ UNCHANGED <<now, advances, running, path, gate, handled, response, limiterFrame, normVars,
                   client, served, temp_names>>
    /\ UNCHANGED <<req, bad_urls, processed_image_file, temp_path, provider_response,
                   outcome, net>>

\* generate_image, lines 57-68: the success dict.
GenLoopExit(t) ==
    /\ pc[t] = "gen_loop" /\ running = t
    /\ idx[t] = Len(provider_response[t])
    /\ ReturnOutcome(t,
         [success |-> TRUE,
          message |-> <<"Successfully generated", Len(images[t]), "image(s)">>,
          images |-> images[t]])
    /\ UNCHANGED <<now, advances, running, path, gate, handled, response, limiterFrame, normVars,
                   diskVars>>
    /\ UNCHANGED <<req, bad_urls, processed_image_file, temp_path, provider_response,
                   idx, images, exc, net>>

\* The except clause of both service methods (lines 70-75 and 171-176): the
\* failure dict with str(e). An exception it does not catch leaves the method
\* and the route, and the framework answers 500.
Except(t) ==
    /\ pc[t] = "except" /\ running = t
    /\ IF Catches(exc[t])
       THEN /\ ReturnOutcome(t, Failure(exc[t].text,
                    IF path[t] = ReferencePath
                    THEN "Failed to generate image with references"
                    ELSE "Failed to generate image"))
            /\ UNCHANGED response
       ELSE /\ response' = [response EXCEPT ![t] =
                    [status |-> 500, detail |-> "Internal Server Error"]]
            /\ pc' = [pc EXCEPT ![t] = "done"]
            /\ UNCHANGED outcome
    /\ UNCHANGED <<now, advances, running, path, gate, handled, limiterFrame, normVars, diskVars>>
    /\ UNCHANGED <<req, bad_urls, processed_image_file, temp_path, provider_response,
                   idx, images, exc, net>>

\* The routes' last lines (reference.py 34-38, generation.py 21-24): a failure
\* outcome becomes HTTPException(400, detail=error), a success the envelope.
RouteReturn(t) ==
    /\ pc[t] = "route_return" /\ running = t
    /\ response' = [response EXCEPT ![t] =
            IF outcome[t].success
            THEN [status |-> 200, body |-> outcome[t]]
            ELSE [status |-> 400, detail |-> outcome[t].error]]
    /\ pc' = [pc EXCEPT ![t] = "done"]
    /\ UNCHANGED <<now, advances, running, path, gate, handled, limiterFrame, normVars, appVars>>

\* The response is sent; the task is free for the next request.
AppReturn(t) ==
    /\ pc[t] = "done" /\ running = t
    /\ running' = 0
    /\ pc' = [pc EXCEPT ![t] = "idle"]
    /\ path' = [path EXCEPT ![t] = HealthPath]
    /\ handled' = [handled EXCEPT ![t] = FALSE]
    /\ response' = [response EXCEPT ![t] = NoResponse]
    /\ req' = [req EXCEPT ![t] = NoReq]
    /\ bad_urls' = [bad_urls EXCEPT ![t] = {}]
    /\ processed_image_file' = [processed_image_file EXCEPT ![t] = <<>>]
    /\ temp_path' = [temp_path EXCEPT ![t] = NoFile]
    /\ provider_response' = [provider_response EXCEPT ![t] = <<>>]
    /\ idx' = [idx EXCEPT ![t] = 0]
    /\ images' = [images EXCEPT ![t] = <<>>]
    /\ exc' = [exc EXCEPT ![t] = NoExc]
    /\ outcome' = [outcome EXCEPT ![t] = NoOutcome]
    /\ net' = [net EXCEPT ![t] = <<>>]
    /\ UNCHANGED <<now, advances, gate, limiterFrame, normVars, diskVars>>

AppNext ==
    \/ Tick
    \/ \E t \in Tasks : AppRequest(t)
    \/ \E t \in Tasks : HealthCheck(t)
    \/ \E t \in Tasks : RouteReference(t)
    \/ \E t \in Tasks : RouteGenerate(t)
    \/ \E t \in Tasks : RefStart(t)
    \/ \E t \in Tasks : FetchReference(t)
    \/ \E t \in Tasks : WriteTemp(t)
    \/ \E t \in Tasks : ProviderEdit(t)
    \/ \E t \in Tasks : RefLoopItem(t)
    \/ \E t \in Tasks : RefLoopExit(t)
    \/ \E t \in Tasks : GenStart(t)
    \/ \E t \in Tasks : GenLoopItem(t)
    \/ \E t \in Tasks : GenLoopExit(t)
    \/ \E t \in Tasks : Except(t)
    \/ \E t \in Tasks : RouteReturn(t)
    \/ \E t \in Tasks : AppReturn(t)

AppSpec == AppInit /\ [][AppNext]_vars

\* ===================================== the image normalizer (PIL images)

\* An image is its mode, its size and its pixels in row order; a pixel has one
\* value per band of the mode.
White == <<255, 255, 255>>

Colours == {<<0, 0, 0>>, <<200, 100, 0>>, White}

Greys == {0, 100, 255}

Alphas == {0, 128, 255}

\* The pixels an image of each mode can hold.
PixelsOf(mode) ==
    CASE mode = "RGBA" -> {c \o <<a>> : c \in Colours, a \in Alphas}
      [] mode = "LA" -> {<<l, a>> : l \in Greys, a \in Alphas}
      [] mode = "RGB" -> Colours
      [] mode = "L" -> {<<l>> : l \in Greys}

\* The images Image.open returns: one row of 1..MaxPixels pixels.
Images ==
    UNION {{[mode |-> m, size |-> <<n, 1>>, data |-> d] : d \in [1..n -> PixelsOf(m)]} :
                m \in {"RGBA", "LA", "RGB", "L"}, n \in 1..MaxPixels}

\* Bytes that are no image: Image.open raises on them.
NotAnImage == [mode |-> "none", size |-> <<0, 0>>, data |-> <<>>]

\* Image.new('RGB', size, colour)
New(size, colour) ==
    [mode |-> "RGB", size |-> size, data |-> [i \in 1..(size[1] * size[2]) |-> colour]]

\* image.split()[-1]: the last band of the image.
LastBand(image) == [i \in DOMAIN image.data |-> image.data[i][Len(image.data[i])]]

\* The three colour bytes of a stored pixel: an L or LA pixel is stored with
\* its grey value in each of them.
ColourBytes(mode, px) ==
    IF mode \in {"RGBA", "RGB"} THEN <<px[1], px[2], px[3]>> ELSE <<px[1], px[1], px[1]>>

\* The blend of paste under a mask: in1 where the mask is 0, in2 where it is
\* 255, in proportion (rounded) in between.
Blend8(mask, in1, in2) == (in1 * (255 - mask) + in2 * mask + 127) \div 255

\* background.paste(image, mask=mask)
PasteMasked(background, image, mask) ==
    [background EXCEPT !.data =
        [i \in DOMAIN background.data |->
            [c \in 1..3 |-> Blend8(mask[i], background.data[i][c],
                                   ColourBytes(image.mode, image.data[i])[c])]]]

\* background.paste(image): without a mask the colour bytes are copied.
Paste(background, image) ==
    [background EXCEPT !.data =
        [i \in DOMAIN background.data |-> ColourBytes(image.mode, image.data[i])]]

\* image.convert('RGB')
ConvertRGB(image) ==
    [mode |-> "RGB", size |-> image.size,
     data |-> [i \in DOMAIN image.data |-> ColourBytes(image.mode, image.data[i])]]

\* _process_image_for_openai, lines 192-201, on an opened image.
Normalized(image) ==
    IF image.mode \in {"RGBA", "LA"}
    THEN LET background == New(image.size, White) IN
         IF image.mode = "RGBA"
         THEN PasteMasked(background, image, LastBand(image))
         ELSE Paste(background, image)
    ELSE IF image.mode # "RGB"
    THEN ConvertRGB(image)
    ELSE image

\* The ValueError of line 211, as a result.
InvalidImageData == [mode |-> "ValueError", size |-> <<0, 0>>, data |-> <<>>]

\* The normalizer on its own: it is handed any image, or bytes that are none.
NormInit ==
    BaseInit /\ client = TRUE /\ raw_data \in Images \cup {NotAnImage} /\ processed_image = NoImage

\* _process_image_for_openai: the image is opened, made RGB and saved as PNG.
ProcessImage ==
    /\ processed_image = NoImage
    /\ processed_image' = IF raw_data = NotAnImage THEN InvalidImageData
                          ELSE Normalized(raw_data)
    /\ UNCHANGED <<limiterVars, appVars, raw_data>>

NormNext == ProcessImage

NormSpec == NormInit /\ [][NormNext]_vars

\* ------------------------------------------------- rate limiter claims

\* The timestamps of key k admitted in the closed window [t - window, t].
AdmittedIn(k, t) ==
    {i \in DOMAIN admitted[k] : admitted[k][i] >= t - WindowTicks /\ admitted[k][i] <= t}

\* The instants at which a trailing window of key k is fullest: a window
\* [t - window, t] that holds more than `limit` admissions holds them all in
\* the window that ends at the latest of them, so the windows ending at an
\* admission (and the one ending now) stand for the windows of every instant.
WindowEnds(k) == {now} \cup {admitted[k][i] : i \in DOMAIN admitted[k]}

\* C1: for every key and every instant t, at most `limit` requests of that key
\* were admitted with a timestamp in [t - 60 s, t], whatever the interleaving
\* of the dispatch calls.
C1_AtMostLimitPerWindow ==
    \A k \in Keys : \A t \in WindowEnds(k) : Cardinality(AdmittedIn(k, t)) <= limit

\* C1 witness: the window of a key has slid (more than `limit` admissions in
\* all), one of its requests waits in its handler and a concurrent request of
\* the same key was rejected.
C1_Witness ==
    \E k \in Keys : \E t1, t2 \in Tasks :
        /\ t1 # t2
        /\ Len(admitted[k]) > limit
        /\ client_ip[t1] = k /\ gate[t1] = "admitted" /\ pc[t1] = "handler"
        /\ client_ip[t2] = k /\ gate[t2] = "rejected"

\* C4: right after the pruning loop of a check at current_time, the key's record
\* holds no timestamp older than current_time - window.
C4_NoStaleAfterPrune ==
    \A t \in Tasks : pc[t] = "check" =>
        \A i \in DOMAIN requests[client_ip[t]] :
            requests[client_ip[t]][i] >= current_time[t] - WindowTicks

\* C4 witness: a check whose pruning removed an entry and kept a later one.
C4_Witness ==
    \E t \in Tasks :
        /\ pc[t] = "check"
        /\ requests[client_ip[t]] # <<>>
        /\ Len(admitted[client_ip[t]]) > Len(requests[client_ip[t]])

\* The admissions of the task's key less than one minute before the task's
\* request, the request itself left out.
PriorAdmissions(t) ==
    Cardinality({i \in DOMAIN admitted[client_ip[t]] :
                    admitted[client_ip[t]][i] > current_time[t] - WindowTicks})
    - (IF gate[t] = "admitted" THEN 1 ELSE 0)

\* C5: a request of a key that has `limit` admissions less than one minute old
\* is answered 429 with error, message and retry_after, its handler is not
\* invoked, and retry_after > 0.
C5_RejectedWithPositiveRetry ==
    \A t \in Tasks :
        (pc[t] = "done" /\ path[t] # HealthPath /\ PriorAdmissions(t) >= limit) =>
            /\ gate[t] = "rejected"
            /\ ~handled[t]
            /\ response[t].status = 429
            /\ DOMAIN response[t] = {"status", "error", "message", "retry_after"}
            /\ response[t].retry_after > 0

\* C6: on every rejection retry_after is window - (current_time - front of the
\* pruned record) truncated to whole seconds, and lies in 0..window.
C6_RetryAfterValue ==
    \A t \in Tasks : (pc[t] = "done" /\ gate[t] = "rejected") =>
        LET remaining == WindowTicks - (current_time[t] - Head(requests[client_ip[t]]))
            r == response[t].retry_after
        IN  /\ r \in 0..window
            /\ r * TicksPerSecond <= remaining
            /\ remaining < (r + 1) * TicksPerSecond

\* C6 witness: a rejection half a second after the window's oldest request,
\* where the truncation cuts the half second off: the record holds two
\* different timestamps.
C6_Witness ==
    \E t \in Tasks :
        /\ pc[t] = "done" /\ gate[t] = "rejected"
        /\ response[t].retry_after = window - 1
        /\ Head(requests[client_ip[t]]) # requests[client_ip[t]][Len(requests[client_ip[t]])]

\* A step of a health-check request of task t.
HealthStep(t) ==
    /\ pc'[t] # pc[t]
    /\ IF pc[t] = "idle" THEN path'[t] = HealthPath ELSE path[t] = HealthPath

\* C7: a /health request is always passed on to its handler, never answered
\* 429, and none of its steps changes any key's record.
C7_HealthExempt ==
    /\ [](\A t \in Tasks : (path[t] = HealthPath /\ pc[t] \in {"handler", "done"}) =>
            /\ gate[t] = "exempt"
            /\ response[t].status # 429
            /\ (pc[t] = "done" => handled[t]))
    /\ [][\A t \in Tasks : HealthStep(t) => requests' = requests]_vars

\* C7 witness: a health check answered by its handler while its key's record
\* is full.
C7_Witness ==
    \E t \in Tasks :
        /\ path[t] = HealthPath /\ pc[t] = "done" /\ handled[t]
        /\ Len(requests[client_ip[t]]) >= limit

\* C17: a rejection leaves every record as it was after the pruning (the
\* rejected request is not recorded), no record is ever longer than `limit`,
\* and a check on one key changes no other key's record.
C17_RejectionRecordsNothing ==
    /\ [](\A k \in Keys : Len(requests[k]) <= limit)
    /\ [][\A t \in Tasks :
            /\ (pc[t] = "check" /\ pc'[t] = "done") => requests' = requests
            /\ (running = t /\ pc[t] \in {"prune", "check"}) =>
                    \A k \in Keys \ {client_ip[t]} : requests'[k] = requests[k]]_vars

\* C17 witness: a request was rejected on a full record while the other key
\* has a record of its own.
C17_Witness ==
    \E t \in Tasks :
        /\ pc[t] = "done" /\ gate[t] = "rejected"
        /\ Len(requests[client_ip[t]]) = limit
        /\ \E k \in Keys \ {client_ip[t]} : requests[k] # <<>>

\* The rejections of the task's key whose guidance the task's request has
\* followed: the request comes at least retry_after + 1 seconds after the
\* rejection, and no request of the key was admitted in between.
FollowedRejections(t) ==
    {rej \in rejected[client_ip[t]] :
        /\ current_time[t] >= rej[1] + (rej[2] + 1) * TicksPerSecond
        /\ Len(admitted[client_ip[t]]) = rej[3]}

\* C18: a request of a key made at least retry_after + 1 seconds after a
\* rejection of that key, with no request of the key admitted in between, is
\* admitted.
C18_RetryGuidanceSuffices ==
    [][\A t \in Tasks :
        (pc[t] = "check" /\ pc'[t] # "check" /\ FollowedRejections(t) # {})
            => gate'[t] = "admitted"]_vars

\* C18 witness: a request that came exactly retry_after + 1 seconds after a
\* rejection was admitted, and filled the record again.
C18_Witness ==
    \E t \in Tasks : \E rej \in rejected[client_ip[t]] :
        /\ pc[t] = "handler" /\ gate[t] = "admitted"
        /\ current_time[t] = rej[1] + (rej[2] + 1) * TicksPerSecond
        /\ Len(admitted[client_ip[t]]) = rej[3] + 1
        /\ Len(requests[client_ip[t]]) = limit

\* -------------------------------------------------- application claims

\* C2: the handler of a request whose path is not /health runs, and the
\* provider is called for it, only after the rate limiter admitted the request.
C2_LimiterGatesHandlers ==
    \A t \in Tasks :
        (path[t] # HealthPath /\ (handled[t] \/ net[t] # <<>>)) => gate[t] = "admitted"

\* C3: a reference call with several URLs one of which cannot be fetched (the
\* 2nd of 2, say) returns a failure outcome, never a success outcome that
\* carries images (the part of the claim stated here).
C3_AnyFetchFailureAborts ==
    \A t \in Tasks :
        (/\ pc[t] = "route_return"
         /\ path[t] = ReferencePath
         /\ Len(req[t].image_urls) >= 2
         /\ \E i \in DOMAIN req[t].image_urls : req[t].image_urls[i] \in bad_urls[t])
        => ~(outcome[t].success /\ outcome[t].images # <<>>)

\* C8: a reference call with more than 5 URLs is answered with a 4xx and no
\* network call is made for it: it never gets past its route's count check.
C8_CountCheckBeforeNetwork ==
    \A t \in Tasks :
        (path[t] = ReferencePath /\ Len(req[t].image_urls) > 5) =>
            /\ net[t] = <<>>
            /\ pc[t] \in {"route", "done"}
            /\ pc[t] = "done" =>
                /\ response[t].status \in 400..499
                /\ response[t].detail = "Maximum 5 reference images allowed"

\* C8 witness: a request with 6 URLs was answered 400.
C8_Witness ==
    \E t \in Tasks :
        /\ pc[t] = "done" /\ path[t] = ReferencePath
        /\ Len(req[t].image_urls) = 6
        /\ response[t].status = 400

\* C9: an exception raised by any step of generate_image or
\* generate_with_reference_urls becomes the method's failure outcome, with the
\* exception's text as error, and the route answers 400 with that text; no
\* request is answered 500.
C9_NoExceptionEscapes ==
    \A t \in Tasks :
        /\ response[t].status # 500
        /\ exc[t] # NoExc =>
            /\ pc[t] \in {"except", "route_return", "done"}
            /\ pc[t] = "route_return" =>
                /\ ~outcome[t].success
                /\ outcome[t].error = exc[t].text
            /\ pc[t] = "done" => response[t] = [status |-> 400, detail |-> exc[t].text]

\* C9 witness: the disk write of the second returned item failed and the
\* request was answered 400.
C9_Witness ==
    \E t \in Tasks :
        /\ pc[t] = "done" /\ response[t].status = 400
        /\ exc[t].type = "OSError"
        /\ idx[t] = 1

\* An item that is not dropped: it has a non-empty URL or non-empty inline data.
Kept(item) == (item.url # NoneUrl /\ item.url # "") \/ (item.b64_json # NoneB64 /\ item.b64_json # <<>>)

\* The images the claim expects of a provider response: the kept items in
\* order, each under the index of its position, the URL's bytes encoded when
\* there is a URL and the inline data otherwise.
Unified(resp) ==
    LET all == [i \in 1..Len(resp) |->
                  [index |-> i - 1,
                   b64_json |-> IF resp[i].url # NoneUrl /\ resp[i].url # ""
                                THEN B64Encode(ResultBody(resp[i].url))
                                ELSE resp[i].b64_json,
                   keep |-> Kept(resp[i])]]
        IsKept(x) == x.keep
        kept == SelectSeq(all, IsKept)
    IN  [i \in 1..Len(kept) |-> [index |-> kept[i].index, b64_json |-> kept[i].b64_json]]

\* The URLs of the items of a response that carry one, in order.
UrlsOf(resp) ==
    LET HasUrl(item) == item.url # NoneUrl /\ item.url # ""
        with == SelectSeq(resp, HasUrl)
    IN  [i \in 1..Len(with) |-> <<"GET", with[i].url>>]

\* C10: the images of a success outcome of generate_with_reference_urls are
\* the provider's items in order, those with neither URL nor inline data
\* dropped, each under the index of its position in the response; a URL is
\* fetched and its bytes base64-encoded (77 gives "TQ=="), inline data is used
\* as it is.
C10_ResponseUnification ==
    /\ B64Encode(<<77>>) = <<19, 16, Pad, Pad>>
    /\ \A t \in Tasks :
        (pc[t] = "route_return" /\ path[t] = ReferencePath /\ outcome[t].success) =>
            /\ [i \in 1..Len(outcome[t].images) |->
                  [index |-> outcome[t].images[i].index,
                   b64_json |-> outcome[t].images[i].b64_json]]
               = Unified(provider_response[t])
            /\ SubSeq(net[t], 3, Len(net[t])) = UrlsOf(provider_response[t])

\* C10 witness: a success whose first item was dropped and whose second item,
\* a URL, is the only image, under index 1.
C10_Witness ==
    \E t \in Tasks :
        /\ pc[t] = "route_return" /\ path[t] = ReferencePath /\ outcome[t].success
        /\ Len(provider_response[t]) = 2
        /\ ~Kept(provider_response[t][1])
        /\ Len(outcome[t].images) = 1
        /\ outcome[t].images[1].index = 1
        /\ outcome[t].images[1].b64_json = <<19, 16, Pad, Pad>>

\* ---------------------------------------------------- outcome claims

\* C11: an outcome is never partially successful: a success carries the images
\* of the whole provider response and no error; a failure carries an error and
\* no images, even when frames were processed before the step that failed.
C11_NeverPartiallySuccessful ==
    \A t \in Tasks : pc[t] = "route_return" =>
        IF outcome[t].success
        THEN /\ "error" \notin DOMAIN outcome[t]
             /\ exc[t] = NoExc
             /\ idx[t] = Len(provider_response[t])
             /\ outcome[t].images = images[t]
        ELSE /\ DOMAIN outcome[t] = {"success", "error", "message"}
             /\ outcome[t].error # ""

\* C11 witness: the second frame of a response failed after the first had been
\* processed, and the method returned its failure outcome.
C11_Witness ==
    \E t \in Tasks :
        /\ pc[t] = "route_return" /\ ~outcome[t].success
        /\ exc[t] # NoExc
        /\ Len(images[t]) = 1 /\ idx[t] = 1

\* C12: once generate_with_reference_urls has created its temp file, the file
\* does not exist when the call returns, whichever way it returns.
C12_TempFileRemoved ==
    \A t \in Tasks :
        (pc[t] = "route_return" /\ temp_path[t] # NoFile) =>
            temp_path[t] \notin DOMAIN files

\* C13: temp files have call-unique names: no two reference calls, and so no
\* two that start within the same clock second, use the same temp file path.
C13_TempNamesUnique ==
    \A i, j \in DOMAIN temp_names : i # j => temp_names[i] # temp_names[j]

\* The positions at which a call is about to make a blocking outbound call:
\* the reference fetch, the temp-file write, the provider calls, and the
\* result download and disk write of the loops.
Outbound == {"fetch_ref", "write_temp", "edit", "gen_start", "ref_loop", "gen_loop"}

\* C14: while a request is at an outbound call, another request (a /health
\* request included) can be started by the process.
C14_BlockingCallsDoNotStall ==
    \A a, b \in Tasks :
        (a # b /\ pc[a] \in Outbound /\ pc[b] = "idle" /\ served < MaxRequests)
            => ENABLED AppRequest(b)

\* ------------------------------------------------ persistence claims

\* The image files of the output directory: every file but the temp files.
ImageFiles(fs) == {f \in DOMAIN fs : f[1] \in {"generated", "reference"}}

\* The prefix of the files a route's service method writes.
KindOf(p) == IF p = ReferencePath THEN "reference" ELSE "generated"

\* C16: with save_to_disk set, every image of a success outcome carries the
\* filename <prefix>_<timestamp>_<index>.<ext> (its own index, the requested
\* format) and its path, and the file holds the image's decoded bytes; with
\* save_to_disk not set, no image carries a filename and no step of the request
\* writes an image file.
C16_PersistenceFollowsFlag ==
    /\ [](\A t \in Tasks : (pc[t] = "route_return" /\ outcome[t].success) =>
            \A i \in DOMAIN outcome[t].images :
                LET im == outcome[t].images[i] IN
                IF req[t].save_to_disk
                THEN /\ DOMAIN im = {"index", "b64_json", "filename", "file_path"}
                     /\ \E ts \in 0..Timestamp :
                            im.filename = <<KindOf(path[t]), ts, im.index, req[t].response_format>>
                     /\ im.file_path = <<GENERATED_IMAGES_DIR, im.filename>>
                     /\ im.filename \in DOMAIN files
                     /\ files[im.filename] = B64Decode(im.b64_json)
                ELSE DOMAIN im = {"index", "b64_json"})
    /\ [][\A t \in Tasks : (running = t /\ pc[t] # "idle" /\ ~req[t].save_to_disk) =>
            /\ ImageFiles(files') = ImageFiles(files)
            /\ \A f \in ImageFiles(files) : files'[f] = files[f]]_vars

\* C16 witness: a success with two saved images, "_0.jpeg" and "_1.jpeg".
C16_Witness ==
    \E t \in Tasks :
        /\ pc[t] = "route_return" /\ outcome[t].success /\ req[t].save_to_disk
        /\ req[t].response_format = "jpeg"
        /\ Len(outcome[t].images) = 2
        /\ outcome[t].images[1].filename[3] = 0
        /\ outcome[t].images[2].filename[3] = 1
        /\ outcome[t].images[2].filename \in DOMAIN files

\* C19: a call that returns a failure outcome leaves none of the image files
\* it saved in the output directory.
C19_FailureLeavesNoFile ==
    \A t \in Tasks :
        (pc[t] = "route_return" /\ ~outcome[t].success) =>
            \A i \in DOMAIN images[t] :
                "filename" \in DOMAIN images[t][i] =>
                    images[t][i].filename \notin DOMAIN files

\* ------------------------------------------------- normalizer claims

\* C15: an image with an alpha channel, RGBA or LA, comes out as an RGB image
\* of the same size in which every fully transparent pixel is white and every
\* fully opaque pixel has its original colour.
C15_AlphaCompositedOnWhite ==
    (processed_image # NoImage /\ raw_data.mode \in {"RGBA", "LA"}) =>
        /\ processed_image.mode = "RGB"
        /\ processed_image.size = raw_data.size
        /\ \A i \in DOMAIN raw_data.data :
            LET px == raw_data.data[i]
                alpha == px[Len(px)]
            IN  /\ alpha = 0 => processed_image.data[i] = White
                /\ alpha = 255 => processed_image.data[i] = ColourBytes(raw_data.mode, px)

====
